---- MODULE Spec2Model ----
(***************************************************************************)
(* Pizza42 orders API (Express + express-oauth2-jwt-bearer + Postgres /    *)
(* Auth0 Management API).  The repository holds four successive versions   *)
(* of server.js; the model carries the deployed version in `variant`:      *)
(*   "appmeta" src/api/server.js:1-132   orders kept in Auth0 app_metadata *)
(*   "pg"      src/api/server.js:134-406 orders kept in Postgres           *)
(*   "pgjson"  src/unnamed/part_001      Number.isFinite, next(e)          *)
(*   "pgcache" src/README.md:183-510     mgmtCache, profile enrichment     *)
(* One request is one slot of `req`; every await of a handler is a step    *)
(* boundary, the code between two awaits runs atomically (Node event loop).*)
(***************************************************************************)
EXTENDS Integers, Sequences, FiniteSets, TLC

\* ------------------------------------------------------------ bounds
MaxOrders == 1      \* rows of the orders table (gate scenarios)
MaxListed == 3      \* rows of the orders table (listing scenarios)
MaxLedger == 7      \* rows of the orders table (summary scenarios)
MaxClock == 1       \* wall clock, in seconds since start
MaxUserIds == 3     \* ids issued by users_id_seq while rows are still deleted

\* ------------------------------------------------- program constants
SafetyMargin == 30
SummaryLimit == 5

Variants == {"appmeta", "pg", "pgjson", "pgcache"}
PgVariants == {"pg", "pgjson", "pgcache"}

POST == "POST /orders"
GET == "GET /orders"
SUMMARY == "GET /orders/summary"

CreateOrders == "create:orders"
ReadOrders == "read:orders"
ReadSummary == "read:orders_summary"
ClientCredentials == "client-credentials"

\* JS undefined / missing claim, SQL NULL
Absent == "absent"
Null == "null"

Subjects == {"auth0|s1", "auth0|s2"}

\* ------------------------------------------------------ JS values
\* A JSON value of the request body, as far as the handlers inspect it.
Undefined == [t |-> "undefined", fin |-> FALSE, v |-> 0, elems |-> <<>>]
Num(n) == [t |-> "number", fin |-> TRUE, v |-> n, elems |-> <<>>]
NaN == [t |-> "number", fin |-> FALSE, v |-> 0, elems |-> <<>>]
Arr(s) == [t |-> "array", fin |-> FALSE, v |-> 0, elems |-> s]

IsArray(x) == x.t = "array"
TypeofNumber(x) == x.t = "number"
IsFinite(x) == x.t = "number" /\ x.fin

Pepperoni == [id |-> "pepperoni", qty |-> 1]
NoIdItem == [id |-> Absent, qty |-> 1]
ZeroQtyItem == [id |-> "pepperoni", qty |-> 0]

\* ------------------------------------------------------ tokens
Token(valid, sub, scope, ev, gty, email) ==
  [valid |-> valid, sub |-> sub, scope |-> scope, email_verified |-> ev,
   gty |-> gty, email |-> email]

InvalidToken == Token(FALSE, Absent, {}, Absent, Absent, Absent)

\* An inbound request: route, bearer token and ?sub=; the JSON body is drawn
\* where the handler reads req.body.
Request(route, token, qsub) == [route |-> route, token |-> token, qsub |-> qsub]

NoRequest == Request("none", InvalidToken, Absent)

\* ------------------------------------------------------ state
VARIABLES
  variant,         \* which server.js is deployed
  mode,            \* scenario: which inputs the clients send
  mgmtConfigured,  \* MGMT_CLIENT_ID and MGMT_CLIENT_SECRET are set
  env,             \* which of AUTH0_DOMAIN, AUTH0_AUDIENCE, DATABASE_URL are set
  proc,            \* the process: "boot", "schema", "listening" or exited
  users,           \* table users: rows [id, auth0_sub, email]
  orders,          \* table orders, in insertion order
  serial,          \* last value of the SERIAL sequences users_id_seq, orders_id_seq
  appMeta,         \* Auth0 user profile app_metadata, per subject
  mgmtCache,       \* let mgmtCache = { token, exp }
  clock,           \* wall clock in seconds (Date.now()/1000, NOW())
  req              \* the requests being served, per slot

vars ==
  <<variant, mode, mgmtConfigured, env, proc, users, orders, serial, appMeta, mgmtCache,
    clock, req>>

AllSlots == {1, 2}
Slots == IF mode \in {"conc", "refresh", "append", "profile"} THEN AllSlots ELSE {1}
OrderCap ==
  CASE mode = "ledger" -> MaxListed
    [] mode = "summary" -> MaxLedger
    [] mode \in {"refresh", "append", "cascade", "profile"} -> MaxOrders + 1
    [] OTHER -> MaxOrders

NoMgmtToken == [by |-> 0, now |-> 0, e |-> 0]
EmptyCache == [token |-> NoMgmtToken, exp |-> 0]
EmptyMeta == [orders |-> <<>>, orders_count |-> 0, last_order |-> 0]
NoneIssued == [users |-> 0, orders |-> 0]
NoSummary == [id |-> 0, total |-> Undefined, created_at |-> 0]

\* A request slot: the request, the handler's position and its local variables,
\* and the response once sent.
Idle ==
  [pc |-> "idle", in |-> NoRequest, items |-> Undefined, total |-> Undefined,
   address |-> Absent, status |-> 0, body |-> "none", rows |-> <<>>,
   now |-> 0, mgmt |-> NoMgmtToken, verified |-> "unset", userId |-> 0,
   idp |-> 0, fault |-> FALSE, meta |-> EmptyMeta,
   bg |-> "none", bgNow |-> 0, bgMgmt |-> NoMgmtToken, made |-> NoSummary]

Fresh(in) == [Idle EXCEPT !.in = in]

\* res.status(code).json(...) / res.json(...): the response ends the request.
Respond(s, code, body, rows) ==
  [s EXCEPT !.pc = "done", !.status = code, !.body = body, !.rows = rows,
            !.now = 0, !.mgmt = NoMgmtToken, !.meta = EmptyMeta]

\* A storage call threw: the handler's catch answers (the flag records the throw).
Failed(s, body) == Respond([s EXCEPT !.fault = TRUE], 500, body, <<>>)

\* x || null
OrNull(x) == IF x \in {Absent, ""} THEN Null ELSE x

Min(a, b) == IF a <= b THEN a ELSE b
Max(a, b) == IF a >= b THEN a ELSE b
Range(s) == {s[i] : i \in 1..Len(s)}

\* ------------------------------------------------------ repository
HasUser(sub) == \E u \in users : u.auth0_sub = sub
UserOf(sub) == CHOOSE u \in users : u.auth0_sub = sub
NextUserId == serial.users + 1

\* (mutant) a plain INSERT, no unique key on auth0_sub
UpsertUserAlwaysInsert(sub, email) ==
  users \cup {[id |-> NextUserId, auth0_sub |-> sub, email |-> email]}

\* (mutant) ON CONFLICT (auth0_sub) DO NOTHING
UpsertUserDoNothing(sub, email) ==
  IF HasUser(sub) THEN users
  ELSE users \cup {[id |-> NextUserId, auth0_sub |-> sub, email |-> email]}

\* INSERT INTO users ... ON CONFLICT (auth0_sub) DO UPDATE SET email = EXCLUDED.email
UpsertUser(sub, email) ==
  IF HasUser(sub)
  THEN {IF u.auth0_sub = sub THEN [u EXCEPT !.email = email] ELSE u : u \in users}
  ELSE users \cup {[id |-> NextUserId, auth0_sub |-> sub, email |-> email]}

\* ... RETURNING id
UpsertReturning(sub, email) ==
  (CHOOSE u \in UpsertUser(sub, email) : u.auth0_sub = sub).id

\* (mutant) the insert runs twice
InsertOrderTwice(userId, items, total, address) ==
  LET row(n) == [id |-> n, user_id |-> userId, items |-> items, total |-> total,
                 address |-> address, created_at |-> clock]
  IN Append(Append(orders, row(serial.orders + 1)), row(serial.orders + 2))

\* INSERT INTO orders (user_id, items, total, address) ... created_at DEFAULT NOW()
InsertOrder(userId, items, total, address) ==
  Append(orders, [id |-> serial.orders + 1, user_id |-> userId, items |-> items,
                  total |-> total, address |-> address, created_at |-> clock])

OrdersOf(userId) == {o \in Range(orders) : o.user_id = userId}

\* ORDER BY created_at DESC [LIMIT n]: every ordering of the rows with
\* created_at non-increasing, cut after n rows; rows with equal created_at
\* come in any order.
RECURSIVE DescOrderings(_, _)
DescOrderings(S, n) ==
  IF S = {} \/ n = 0 THEN {<<>>}
  ELSE LET top == {o \in S : \A p \in S : p.created_at <= o.created_at}
       IN UNION {{<<o>> \o rest : rest \in DescOrderings(S \ {o}, n - 1)} : o \in top}

ListRow(o) ==
  [id |-> o.id, items |-> o.items, total |-> o.total, address |-> o.address,
   created_at |-> o.created_at]
SummaryRow(o) == [id |-> o.id, total |-> o.total, created_at |-> o.created_at]

ListRows(s) == [i \in 1..Len(s) |-> ListRow(s[i])]
SummaryRows(s) == [i \in 1..Len(s) |-> SummaryRow(s[i])]

\* (mutant) only the latest order is listed
SelectOrdersLatest(userId) ==
  {ListRows(s) : s \in DescOrderings(OrdersOf(userId), 1)}

\* SELECT id, items, total, address, created_at ... ORDER BY created_at DESC
SelectOrders(userId) ==
  {ListRows(s) : s \in DescOrderings(OrdersOf(userId), Cardinality(OrdersOf(userId)))}

\* (mutant) no LIMIT
SelectSummaryAll(userId) ==
  {SummaryRows(s) : s \in DescOrderings(OrdersOf(userId), Cardinality(OrdersOf(userId)))}

\* SELECT id, total, created_at ... ORDER BY created_at DESC LIMIT 5
SelectSummary(userId) ==
  {SummaryRows(s) : s \in DescOrderings(OrdersOf(userId), SummaryLimit)}

\* ------------------------------------------------------ inputs
Alice == "auth0|s1"
Bob == "auth0|s2"
MailA == "a@pizza42.io"
MailB == "b@pizza42.io"
EvClaims == {"true", "false", Absent}
UserScopes == {{}, {CreateOrders}, {ReadOrders}, {CreateOrders, ReadOrders}}

UserTokens(subs, scopes, evs, emails) ==
  {Token(TRUE, sub, sc, ev, Absent, em) :
     sub \in subs, sc \in scopes, ev \in evs, em \in emails}

GateRequests ==
  {Request(rt, tk, Absent) :
     rt \in {POST, GET},
     tk \in {InvalidToken} \cup UserTokens({Alice, Absent}, UserScopes, EvClaims, {Absent, MailA})}
  \cup
  {Request(SUMMARY, tk, q) :
     tk \in {InvalidToken} \cup
            {Token(TRUE, Alice, sc, Absent, g, Absent) :
               sc \in {{ReadOrders}, {ReadSummary}},
               g \in {Absent, ClientCredentials, "password"}},
     q \in {Absent, Alice, Bob}}

\* Well-formed traffic of two verified customers, and of the post-login hook.
Customer(sub, em) == Token(TRUE, sub, {CreateOrders, ReadOrders}, "true", Absent, em)
Hook == Token(TRUE, "hook@clients", {ReadSummary}, Absent, ClientCredentials, Absent)

LedgerRequests ==
  {Request(rt, Customer(sub, MailA), Absent) : rt \in {POST, GET}, sub \in {Alice, Bob}}
  \cup {Request(SUMMARY, Hook, q) : q \in {Alice, Bob}}

\* One regular customer and an occasional one (at most MaxOrders orders).
Placed(sub) ==
  Cardinality({o \in Range(orders) : \E u \in users : u.auth0_sub = sub /\ u.id = o.user_id})
SummaryRequests ==
  {Request(POST, Customer(Alice, MailA), Absent)}
  \cup (IF Placed(Bob) < MaxOrders THEN {Request(POST, Customer(Bob, MailA), Absent)} ELSE {})
  \cup {Request(SUMMARY, Hook, q) : q \in {Alice, Bob}}

\* Two connections of one customer whose email changes, and a second customer.
ConcRequests ==
  {Request(rt, Customer(Alice, em), Absent) : rt \in {POST, GET}, em \in {MailA, MailB}}
  \cup {Request(rt, Customer(Bob, MailA), Absent) : rt \in {POST, GET}}

\* Orders of one customer whose tokens carry no email_verified claim, or a
\* true one: the email gate and the profile enrichment both need a service token.
RefreshRequests ==
  {Request(POST, Token(TRUE, Alice, {CreateOrders}, ev, Absent, MailA), Absent) :
     ev \in {Absent, "true"}}

\* One customer placing and listing orders on two connections.
ProfileRequests == {Request(rt, Customer(Alice, MailA), Absent) : rt \in {POST, GET}}

Requests ==
  CASE mode = "gate" -> GateRequests
    [] mode = "profile" -> ProfileRequests
    [] mode = "refresh" -> RefreshRequests
    [] mode \in {"ledger", "append", "cascade"} -> LedgerRequests
    [] mode = "summary" -> SummaryRequests
    [] OTHER -> ConcRequests

GateItems == {Undefined, Arr(<<>>), Arr(<<Pepperoni>>), Arr(<<NoIdItem>>), Arr(<<ZeroQtyItem>>)}
GateTotals == {Undefined, NaN, Num(-1), Num(2250)}

\* req.body, as sent by the client
Body(items, total, address) == [items |-> items, total |-> total, address |-> address]
GoodBody == Body(Arr(<<Pepperoni>>), Num(2250), "123 Pizza St")
SecondBody == Body(Arr(<<Pepperoni, Pepperoni>>), Num(4500), "123 Pizza St")

Bodies ==
  CASE mode = "gate" ->
         {Body(i, Num(2250), Absent) : i \in GateItems} \cup
         {Body(Arr(<<Pepperoni>>), t, Absent) : t \in GateTotals}
    [] mode = "profile" -> {GoodBody, SecondBody}
    [] OTHER -> {GoodBody}

\* expires_in of the token endpoint's answer, in seconds
ExpiresIn == {30, 31, 32}
\* POST /oauth/token: an error, or (with valid client credentials) a token
TokenOutcomes ==
  {[ok |-> FALSE, expires_in |-> 0]} \cup
  (IF mgmtConfigured THEN {[ok |-> TRUE, expires_in |-> e] : e \in ExpiresIn} ELSE {})
\* GET /api/v2/users/{sub}: an error (network, 4xx, no such user) or the profile
ProfileOutcomes(sub) ==
  {"fail"} \cup (IF sub \in Subjects THEN {"verified", "unverified"} ELSE {})
StorageOutcomes == {"ok", "fault"}

\* ------------------------------------------------------ gates
\* auth({audience, issuerBaseURL, tokenSigningAlg})
CheckJwt(token) == token.valid

\* (mutant) a cached token is used whatever its expiry
CacheFreshForever(cache, now) == cache.token # NoMgmtToken

\* (mutant) any granted permission passes
RequiredScopesAny(token, perm) == token.scope # {}

\* requiredScopes(perm)
RequiredScopes(token, perm) == perm \in token.scope

RouteScope(route) ==
  CASE route = POST -> CreateOrders
    [] route = GET -> ReadOrders
    [] OTHER -> ReadSummary

\* if (mgmtCache.token && mgmtCache.exp - 30 > now) return mgmtCache.token;
CacheFresh(cache, now) == cache.token # NoMgmtToken /\ cache.exp - SafetyMargin > now

\* GET /orders/summary handler, up to its first await
SummaryHandler(s) ==
  LET gty == s.in.token.gty IN
  IF gty # Absent /\ gty # ClientCredentials THEN Respond(s, 403, "error", <<>>)
  ELSE IF s.in.qsub = Absent THEN Respond(s, 400, "error", <<>>)
  ELSE [s EXCEPT !.pc = "sumUser"]

\* The route handler, up to its first await.
StartHandler(s) ==
  IF variant = "appmeta" THEN [s EXCEPT !.pc = "hToken", !.idp = @ + 1]
  ELSE IF s.in.route = SUMMARY THEN SummaryHandler(s)
  ELSE [s EXCEPT !.pc = "ensureUser"]

\* The email gate's decision against the request.
Denied(s, v) == Respond([s EXCEPT !.verified = v], 403, "error", <<>>)

\* (mutant) an indeterminate verification lets the request through
VerifyFailedOpen(s) == StartHandler([s EXCEPT !.verified = "null"])

\* The Management API call of the email gate threw: isEmailVerifiedViaMgmtApi
\* returns null (403); the app_metadata version's catch answers 500.
VerifyFailed(s) ==
  IF variant = "appmeta" THEN Respond([s EXCEPT !.verified = "threw"], 500, "error", <<>>)
  ELSE Denied(s, "null")

\* isEmailVerifiedViaMgmtApi(sub), up to its first await
VerifyViaMgmtApi(s) ==
  IF ~mgmtConfigured THEN VerifyFailed(s)
  ELSE IF variant = "pgcache" /\ CacheFresh(mgmtCache, clock)
  THEN [s EXCEPT !.pc = "evProfile", !.mgmt = mgmtCache.token, !.idp = @ + 1]
  ELSE [s EXCEPT !.pc = "evToken", !.idp = @ + 1,
                 !.now = IF variant = "pgcache" THEN clock ELSE 0]

\* (mutant) the token's claim is ignored, the provider is always asked
RequireVerifiedEmailAlwaysAsks(s) ==
  IF s.in.token.sub = Absent THEN Respond(s, 401, "error", <<>>)
  ELSE VerifyViaMgmtApi(s)

\* (mutant) the token's email_verified:false is not trusted, the provider is asked
RequireVerifiedEmailNoFastDeny(s) ==
  IF s.in.token.sub = Absent THEN Respond(s, 401, "error", <<>>)
  ELSE IF s.in.token.email_verified = "true" THEN StartHandler(s)
  ELSE VerifyViaMgmtApi(s)

\* (mutant) a token without an email claim is refused by the email gate
RequireVerifiedEmailNeedsEmail(s) ==
  LET payload == s.in.token IN
  IF payload.sub = Absent THEN Respond(s, 401, "error", <<>>)
  ELSE IF payload.email = Absent THEN Respond(s, 403, "error", <<>>)
  ELSE IF payload.email_verified = "true" THEN StartHandler(s)
  ELSE IF payload.email_verified = "false" THEN Respond(s, 403, "error", <<>>)
  ELSE VerifyViaMgmtApi(s)

\* requireVerifiedEmail(req, res, next), up to its first await
RequireVerifiedEmail(s) ==
  LET payload == s.in.token IN
  IF payload.sub = Absent THEN Respond(s, 401, "error", <<>>)
  ELSE IF variant = "appmeta" THEN [s EXCEPT !.pc = "evToken", !.idp = @ + 1]
  ELSE IF payload.email_verified = "true" THEN StartHandler(s)
  ELSE IF payload.email_verified = "false" THEN Respond(s, 403, "error", <<>>)
  ELSE VerifyViaMgmtApi(s)

\* (mutant) the scope gate runs before the token validator
PipelineScopeFirst(in) ==
  LET s == Fresh(in) IN
  IF variant = "appmeta" /\ in.route = SUMMARY THEN Respond(s, 404, "default", <<>>)
  ELSE IF ~RequiredScopes(in.token, RouteScope(in.route)) THEN Respond(s, 403, "default", <<>>)
  ELSE IF ~CheckJwt(in.token) THEN Respond(s, 401, "default", <<>>)
  ELSE IF in.route = POST THEN RequireVerifiedEmail(s)
  ELSE StartHandler(s)

\* (mutant) the email gate sits on the read routes too
PipelineGatedReads(in) ==
  LET s == Fresh(in) IN
  IF variant = "appmeta" /\ in.route = SUMMARY THEN Respond(s, 404, "default", <<>>)
  ELSE IF ~CheckJwt(in.token) THEN Respond(s, 401, "default", <<>>)
  ELSE IF ~RequiredScopes(in.token, RouteScope(in.route)) THEN Respond(s, 403, "default", <<>>)
  ELSE RequireVerifiedEmail(s)

\* The middleware chain of a route; the jwt library's errors reach Express's
\* default error handler.
Pipeline(in) ==
  LET s == Fresh(in) IN
  IF variant = "appmeta" /\ in.route = SUMMARY THEN Respond(s, 404, "default", <<>>)
  ELSE IF ~CheckJwt(in.token) THEN Respond(s, 401, "default", <<>>)
  ELSE IF ~RequiredScopes(in.token, RouteScope(in.route)) THEN Respond(s, 403, "default", <<>>)
  ELSE IF in.route = POST THEN RequireVerifiedEmail(s)
  ELSE StartHandler(s)

Others == <<variant, mode, mgmtConfigured, env, proc>>

StoredOrders ==
  Len(orders) + Len(appMeta[Alice].orders) + Len(appMeta[Bob].orders)
PostsInFlight ==
  Cardinality({q \in AllSlots : req[q].in.route = POST /\ req[q].pc \notin {"idle", "done"}})

\* A request arrives on a free slot and runs its middleware chain.
Arrive(r) ==
  /\ proc = "listening"
  /\ r \in Slots
  /\ req[r].pc = "idle"
  /\ \E in \in Requests :
       /\ in.route = POST => StoredOrders + PostsInFlight < OrderCap
       /\ req' = [req EXCEPT ![r] = Pipeline(in)]
  /\ UNCHANGED <<Others, users, orders, appMeta, mgmtCache, clock, serial>>

\* ------------------------------------------------------ identity provider calls
\* The answer of POST /oauth/token reaches getMgmtToken (or the inline call of
\* isEmailVerifiedViaMgmtApi); the caller runs on to its next await.
AfterToken(s, o, tok) ==
  IF s.bg = "bgToken"
  THEN IF o.ok THEN [s EXCEPT !.bg = "bgProfile", !.bgMgmt = tok, !.bgNow = 0]
       ELSE [s EXCEPT !.bg = "none", !.bgNow = 0, !.made = NoSummary]
  ELSE IF ~o.ok
  THEN IF s.pc = "evToken" THEN VerifyFailed(s) ELSE Respond(s, 500, "error", <<>>)
  ELSE [s EXCEPT !.pc = IF s.pc = "evToken" THEN "evProfile" ELSE "hProfile",
                 !.mgmt = tok, !.now = 0, !.idp = @ + 1]

\* (mutant) the answer is stored whether or not it is an error
CacheStoreAlways(cache, o, tok, now) ==
  IF variant = "pgcache" THEN [token |-> tok, exp |-> now + o.expires_in] ELSE cache

\* (mutant) exp is counted from the arrival of the answer
CacheStoreAtArrival(cache, o, tok, now) ==
  IF variant = "pgcache" /\ o.ok THEN [token |-> tok, exp |-> clock + o.expires_in] ELSE cache

\* mgmtCache = { token: data.access_token, exp: now + data.expires_in };
CacheStore(cache, o, tok, now) ==
  IF variant = "pgcache" /\ o.ok THEN [token |-> tok, exp |-> now + o.expires_in] ELSE cache

TokenResp(r) ==
  /\ req[r].pc \in {"evToken", "hToken"} \/ req[r].bg = "bgToken"
  /\ \E o \in TokenOutcomes :
       LET s == req[r]
           now == IF s.bg = "bgToken" THEN s.bgNow ELSE s.now
           tok == [by |-> r, now |-> now, e |-> o.expires_in]
       IN /\ mgmtCache' = CacheStore(mgmtCache, o, tok, now)
          /\ req' = [req EXCEPT ![r] = AfterToken(s, o, tok)]
  /\ UNCHANGED <<Others, users, orders, appMeta, clock, serial>>

\* orders.push({ ...order, ts: Date.now() })
PushOrder(meta, b) ==
  [meta EXCEPT !.orders = Append(@, [items |-> b.items, total |-> b.total,
                                      address |-> b.address, ts |-> clock])]

\* orders_count = (meta.orders_count || 0) + 1; last_order = { id, total, created_at }
CountOrder(meta, made) ==
  [meta EXCEPT !.orders_count = @ + 1, !.last_order = made.id]

\* The answer of GET /api/v2/users/{sub}.
AfterProfile(s, o, b) ==
  LET meta == IF s.in.token.sub \in Subjects THEN appMeta[s.in.token.sub] ELSE EmptyMeta IN
  IF s.bg = "bgProfile"
  THEN IF o = "fail" THEN [s EXCEPT !.bg = "none", !.bgMgmt = NoMgmtToken, !.made = NoSummary]
       ELSE [s EXCEPT !.bg = "bgPatch", !.meta = CountOrder(meta, s.made)]
  ELSE IF s.pc = "evProfile"
  THEN IF o = "fail"
       THEN VerifyFailed(s)
       ELSE IF o = "verified"
       THEN StartHandler([s EXCEPT !.verified = "true", !.mgmt = NoMgmtToken])
       ELSE Denied(s, "false")
  ELSE IF o = "fail" THEN Respond(s, 500, "error", <<>>)
  ELSE IF s.in.route = POST
  THEN [s EXCEPT !.pc = "hPatch", !.meta = PushOrder(meta, b), !.items = b.items,
                 !.total = b.total, !.address = b.address, !.idp = @ + 1]
  ELSE Respond(s, 200, "orders", meta.orders)

BodiesRead(s, when) == IF s.in.route = POST /\ s.pc = when THEN Bodies
                       ELSE {[items |-> Undefined, total |-> Undefined, address |-> Absent]}

ProfileResp(r) ==
  /\ req[r].pc \in {"evProfile", "hProfile"} \/ req[r].bg = "bgProfile"
  /\ \E o \in ProfileOutcomes(req[r].in.token.sub), b \in BodiesRead(req[r], "hProfile") :
       req' = [req EXCEPT ![r] = AfterProfile(req[r], o, b)]
  /\ UNCHANGED <<Others, users, orders, appMeta, mgmtCache, clock, serial>>

\* The answer of PATCH /api/v2/users/{sub} { app_metadata }.
AfterPatch(s, ok) ==
  IF s.bg = "bgPatch"
  THEN [s EXCEPT !.bg = "none", !.bgMgmt = NoMgmtToken, !.made = NoSummary, !.meta = EmptyMeta]
  ELSE IF ok THEN Respond(s, 200, "saved", <<>>)
  ELSE Respond(s, 500, "error", <<>>)

PatchResp(r) ==
  /\ req[r].pc = "hPatch" \/ req[r].bg = "bgPatch"
  /\ \E ok \in BOOLEAN :
       /\ appMeta' = IF ok THEN [appMeta EXCEPT ![req[r].in.token.sub] = req[r].meta]
                     ELSE appMeta
       /\ req' = [req EXCEPT ![r] = AfterPatch(req[r], ok)]
  /\ UNCHANGED <<Others, users, orders, mgmtCache, clock, serial>>

\* ------------------------------------------------------ storage calls
\* if (!Array.isArray(items) || typeof total !== "number")      (pg)
\* if (!Array.isArray(items) || !Number.isFinite(total))        (pgjson, pgcache)
BodyRejected(b) ==
  \/ ~IsArray(b.items)
  \/ IF variant = "pg" THEN ~TypeofNumber(b.total) ELSE ~IsFinite(b.total)

\* catch (e) of POST /orders: res.status(500).json(...) in pg, next(e) later
PostFailed(s) == Failed(s, IF variant = "pg" THEN "error" ELSE "default")

\* const userId = await ensureUser(sub, email), and the handler up to its next await
AfterEnsureUser(s, ok, uid, b) ==
  IF s.in.route = POST
  THEN IF ~ok THEN PostFailed(s)
       ELSE IF BodyRejected(b)
       THEN Respond([s EXCEPT !.items = b.items, !.total = b.total, !.address = b.address],
                    400, "error", <<>>)
       ELSE [s EXCEPT !.pc = "insert", !.userId = uid, !.items = b.items,
                      !.total = b.total, !.address = b.address]
  ELSE IF ~ok THEN Failed(s, "error")
  ELSE [s EXCEPT !.pc = "select", !.userId = uid]

EnsureUser(r) ==
  /\ req[r].pc = "ensureUser"
  /\ \E o \in StorageOutcomes, b \in BodiesRead(req[r], "ensureUser") :
       LET s == req[r]
           sub == s.in.token.sub
           email == OrNull(s.in.token.email)
           \* auth0_sub TEXT UNIQUE NOT NULL
           ok == o = "ok" /\ sub # Absent
       IN /\ users' = IF ok THEN UpsertUser(sub, email) ELSE users
          /\ serial' = IF ok THEN [serial EXCEPT !.users = Max(@, UpsertReturning(sub, email))]
                       ELSE serial
          /\ req' = [req EXCEPT ![r] =
                       AfterEnsureUser(s, ok, IF ok THEN UpsertReturning(sub, email) ELSE 0, b)]
  /\ UNCHANGED <<Others, orders, appMeta, mgmtCache, clock>>

\* updateProfileOrderSummary(sub, orderSummary), not awaited: up to its first await
StartEnrich(s, made) ==
  IF variant # "pgcache" \/ ~mgmtConfigured THEN s
  ELSE IF CacheFresh(mgmtCache, clock)
  THEN [s EXCEPT !.bg = "bgProfile", !.bgMgmt = mgmtCache.token, !.made = made]
  ELSE [s EXCEPT !.bg = "bgToken", !.bgNow = clock, !.made = made]

\* (mutant) the handler answers 201 whether or not the insert succeeded
AfterInsertAlwaysCreated(s, ok, row) ==
  StartEnrich(Respond(s, 201, "order", <<ListRow(row)>>), SummaryRow(row))

AfterInsert(s, ok, row) ==
  IF ~ok THEN PostFailed(s)
  ELSE StartEnrich(Respond(s, 201, "order", <<ListRow(row)>>), SummaryRow(row))

InsertOrderStep(r) ==
  /\ req[r].pc = "insert"
  /\ \E o \in StorageOutcomes :
       LET s == req[r]
           tbl == InsertOrder(s.userId, s.items, s.total, OrNull(s.address))
           \* user_id INTEGER NOT NULL REFERENCES users(id)
           ok == o = "ok" /\ \E u \in users : u.id = s.userId
       IN /\ orders' = IF ok THEN tbl ELSE orders
          /\ serial' = IF ok THEN [serial EXCEPT !.orders = tbl[Len(tbl)].id] ELSE serial
          /\ req' = [req EXCEPT ![r] = AfterInsert(s, ok, tbl[Len(tbl)])]
  /\ UNCHANGED <<Others, users, appMeta, mgmtCache, clock>>

SelectOrdersStep(r) ==
  /\ req[r].pc = "select"
  /\ \E o \in StorageOutcomes, rows \in SelectOrders(req[r].userId) :
       req' = [req EXCEPT ![r] = IF o = "ok" THEN Respond(req[r], 200, "orders", rows)
                                 ELSE Failed(req[r], "error")]
  /\ UNCHANGED <<Others, users, orders, appMeta, mgmtCache, clock, serial>>

\* (mutant) the summary resolves the subject through ensureUser, as GET /orders does
SummaryUserStepEnsures(r) ==
  /\ req[r].pc = "sumUser"
  /\ \E o \in StorageOutcomes :
       LET s == req[r] IN
       /\ users' = IF o = "ok" THEN UpsertUser(s.in.qsub, Null) ELSE users
       /\ serial' = IF o = "ok"
                    THEN [serial EXCEPT !.users = Max(@, UpsertReturning(s.in.qsub, Null))]
                    ELSE serial
       /\ req' = [req EXCEPT ![r] =
                    IF o # "ok" THEN Failed(s, "error")
                    ELSE [s EXCEPT !.pc = "sumOrders",
                                   !.userId = UpsertReturning(s.in.qsub, Null)]]
  /\ UNCHANGED <<Others, orders, appMeta, mgmtCache, clock>>

\* SELECT id FROM users WHERE auth0_sub = $1; if (!urows.length) return res.json([])
SummaryUserStep(r) ==
  /\ req[r].pc = "sumUser"
  /\ \E o \in StorageOutcomes :
       LET s == req[r] IN
       req' = [req EXCEPT ![r] =
                 IF o # "ok" THEN Failed(s, "error")
                 ELSE IF ~HasUser(s.in.qsub) THEN Respond(s, 200, "summary", <<>>)
                 ELSE [s EXCEPT !.pc = "sumOrders", !.userId = UserOf(s.in.qsub).id]]
  /\ UNCHANGED <<Others, users, orders, appMeta, mgmtCache, clock, serial>>

SummaryOrdersStep(r) ==
  /\ req[r].pc = "sumOrders"
  /\ \E o \in StorageOutcomes, rows \in SelectSummary(req[r].userId) :
       req' = [req EXCEPT ![r] = IF o = "ok" THEN Respond(req[r], 200, "summary", rows)
                                 ELSE Failed(req[r], "error")]
  /\ UNCHANGED <<Others, users, orders, appMeta, mgmtCache, clock, serial>>

\* The connection of an answered request closes, once the work the handler
\* left running has ended; the slot serves the next request.
Close(r) ==
  /\ req[r].pc = "done"
  /\ req[r].bg = "none"
  /\ req' = [req EXCEPT ![r] = Idle]
  /\ UNCHANGED <<Others, users, orders, appMeta, mgmtCache, clock, serial>>

\* (mutant) orders.user_id without ON DELETE CASCADE or any other constraint action
DeleteNoCascade(uid) == orders

\* user_id INTEGER NOT NULL REFERENCES users(id) ON DELETE CASCADE
DeleteCascade(uid) == SelectSeq(orders, LAMBDA o : o.user_id # uid)

\* DELETE FROM users WHERE id = ..., run on the database by its operator (the
\* server has no such statement); the sequences keep their values.
DeleteUser ==
  /\ serial.users < MaxUserIds
  /\ \E u \in users :
       /\ users' = users \ {u}
       /\ orders' = DeleteCascade(u.id)
  /\ UNCHANGED <<Others, serial, appMeta, mgmtCache, clock, req>>

\* Time passes.
Tick ==
  /\ clock < MaxClock
  /\ clock' = clock + 1
  /\ UNCHANGED <<Others, users, orders, appMeta, mgmtCache, req, serial>>

\* ------------------------------------------------------ specifications
\* (mutant) the connection string is not checked
ConfigWithoutDatabase == env.AUTH0_DOMAIN /\ env.AUTH0_AUDIENCE

\* if (!AUTH0_DOMAIN || !AUTH0_AUDIENCE) ... if (!DATABASE_URL) ...
ConfigComplete == env.AUTH0_DOMAIN /\ env.AUTH0_AUDIENCE /\ env.DATABASE_URL

Data == <<users, orders, serial, appMeta, mgmtCache, clock, req>>

\* The module body of server.js runs: process.exit(1) on a missing setting,
\* otherwise initSchema() is called and its query is pending.
Startup ==
  /\ proc = "boot"
  /\ proc' = IF ConfigComplete THEN "schema" ELSE "exitConfig"
  /\ UNCHANGED <<variant, mode, mgmtConfigured, env, Data>>

\* initSchema().then(() => app.listen(PORT)).catch(e => process.exit(1))
SchemaResp ==
  /\ proc = "schema"
  /\ \E o \in StorageOutcomes : proc' = IF o = "ok" THEN "listening" ELSE "exitSchema"
  /\ UNCHANGED <<variant, mode, mgmtConfigured, env, Data>>

AllSet == [AUTH0_DOMAIN |-> TRUE, AUTH0_AUDIENCE |-> TRUE, DATABASE_URL |-> TRUE]
Envs == [AUTH0_DOMAIN : BOOLEAN, AUTH0_AUDIENCE : BOOLEAN, DATABASE_URL : BOOLEAN]

\* The server up and listening, with an empty database.
InitWith(vs, m) ==
  /\ variant \in vs
  /\ mode = m
  /\ mgmtConfigured \in BOOLEAN
  /\ env = AllSet
  /\ proc = "listening"
  /\ users = {}
  /\ orders = <<>>
  /\ serial = NoneIssued
  /\ appMeta = [s \in Subjects |-> EmptyMeta]
  /\ mgmtCache = EmptyCache
  /\ clock = 0
  /\ req = [r \in AllSlots |-> Idle]

Next ==
  \/ \E r \in AllSlots :
       \/ Arrive(r)
       \/ TokenResp(r)
       \/ ProfileResp(r)
       \/ PatchResp(r)
       \/ EnsureUser(r)
       \/ InsertOrderStep(r)
       \/ SelectOrdersStep(r)
       \/ SummaryUserStep(r)
       \/ SummaryOrdersStep(r)
       \/ Close(r)
  \/ Tick

\* The Postgres-backed server under arbitrary single requests.
Init == InitWith(PgVariants, "gate")
Spec == Init /\ [][Next]_vars

\* Every version of the server, the app_metadata one included.
InitAll == InitWith(Variants, "gate")
SpecAll == InitAll /\ [][Next]_vars

\* Two customers placing and listing orders, and the post-login hook.
\* No Management API credentials are configured and every token carries
\* email_verified:true, so no call to the identity provider is ever pending.
InitLedger == InitWith(PgVariants, "ledger") /\ ~mgmtConfigured
NextLedger ==
  \/ \E r \in AllSlots :
       \/ Arrive(r)
       \/ EnsureUser(r)
       \/ InsertOrderStep(r)
       \/ SelectOrdersStep(r)
       \/ SummaryUserStep(r)
       \/ SummaryOrdersStep(r)
       \/ Close(r)
  \/ Tick
SpecLedger == InitLedger /\ [][NextLedger]_vars

\* The latest revision, without GET /orders and with a longer ledger (the
\* summary query is the same text in every Postgres revision).
InitSummary == InitWith({"pgcache"}, "summary") /\ ~mgmtConfigured
NextSummary ==
  \/ \E r \in AllSlots :
       \/ Arrive(r)
       \/ EnsureUser(r)
       \/ InsertOrderStep(r)
       \/ SummaryUserStep(r)
       \/ SummaryOrdersStep(r)
       \/ Close(r)
  \/ Tick
SpecSummary == InitSummary /\ [][NextSummary]_vars

\* Two requests in flight at once, interleaving at their awaits.
InitConc == InitWith({"pgcache"}, "conc") /\ ~mgmtConfigured
NextConc ==
  \/ \E r \in AllSlots :
       \/ Arrive(r)
       \/ EnsureUser(r)
       \/ InsertOrderStep(r)
       \/ SelectOrdersStep(r)
       \/ Close(r)
  \/ Tick
SpecConc == InitConc /\ [][NextConc]_vars

\* The latest revision with Management API credentials, two requests in
\* flight at once, each needing a service token.
InitRefresh == InitWith({"pgcache"}, "refresh") /\ mgmtConfigured
NextRefresh ==
  \/ \E r \in AllSlots :
       \/ Arrive(r)
       \/ TokenResp(r)
       \/ ProfileResp(r)
       \/ PatchResp(r)
       \/ EnsureUser(r)
       \/ InsertOrderStep(r)
       \/ Close(r)
  \/ Tick
SpecRefresh == InitRefresh /\ [][NextRefresh]_vars

\* Two customers and the post-login hook on two connections: placing, listing
\* and summarising interleave at every await.
InitAppend == InitWith(PgVariants, "append") /\ ~mgmtConfigured
SpecAppend == InitAppend /\ [][NextLedger]_vars

\* Two customers placing and listing orders while the database's operator
\* deletes user rows.
InitCascade == InitWith(PgVariants, "cascade") /\ ~mgmtConfigured
NextCascade == NextLedger \/ DeleteUser
SpecCascade == InitCascade /\ [][NextCascade]_vars

\* The app_metadata revision: one customer on two connections, every order
\* kept in the customer's Auth0 profile.
InitProfile == InitWith({"appmeta"}, "profile") /\ mgmtConfigured
NextProfile ==
  \/ \E r \in AllSlots :
       \/ Arrive(r)
       \/ TokenResp(r)
       \/ ProfileResp(r)
       \/ PatchResp(r)
       \/ Close(r)
  \/ Tick
SpecProfile == InitProfile /\ [][NextProfile]_vars

\* The process from its start, under any configuration, then serving two
\* customers as in SpecLedger.
InitBoot ==
  /\ variant \in PgVariants
  /\ mode = "ledger"
  /\ mgmtConfigured = FALSE
  /\ env \in Envs
  /\ proc = "boot"
  /\ users = {} /\ orders = <<>> /\ serial = NoneIssued
  /\ appMeta = [s \in Subjects |-> EmptyMeta]
  /\ mgmtCache = EmptyCache /\ clock = 0
  /\ req = [r \in AllSlots |-> Idle]
NextBoot == Startup \/ SchemaResp \/ NextLedger
SpecBoot == InitBoot /\ [][NextBoot]_vars

\* The single-request server with its scheduling: Postgres answers every query
\* (with rows or with an error) and the event loop runs every continuation that
\* is ready.  The axios calls to the identity provider carry no timeout, so
\* nothing obliges TokenResp, ProfileResp or PatchResp to happen.
LocalStep(r) ==
  \/ EnsureUser(r)
  \/ InsertOrderStep(r)
  \/ SelectOrdersStep(r)
  \/ SummaryUserStep(r)
  \/ SummaryOrdersStep(r)
Scheduling == \A r \in AllSlots : WF_vars(LocalStep(r))
SpecLive == Init /\ [][Next]_vars /\ Scheduling

\* ------------------------------------------------------ claims
\* A token the TokenValidator of the design accepts: checkJwt passes and the
\* subject is present.
Authenticated(tk) == tk.valid /\ tk.sub # Absent
Answered(s) == s.pc = "done"
\* The step is one of request slot r.
StepOf(r) == req'[r] # req[r]
NothingStored == orders' = orders /\ appMeta' = appMeta

\* C1: a POST /orders whose token lacks create:orders is answered 403, and no
\* step of such a request writes an order (table or app_metadata).
LacksCreate(s) ==
  s.in.route = POST /\ Authenticated(s.in.token) /\ CreateOrders \notin s.in.token.scope
C1_MissingScopeForbidden ==
  /\ [](\A r \in AllSlots : Answered(req[r]) /\ LacksCreate(req[r]) => req[r].status = 403)
  /\ [][\A r \in AllSlots : StepOf(r) /\ LacksCreate(req'[r]) => NothingStored]_vars
C1_Witness ==
  \E r \in AllSlots :
    /\ Answered(req[r]) /\ LacksCreate(req[r]) /\ req[r].status = 403
    /\ req[r].in.token.scope = {ReadOrders}
    /\ req[r].in.token.email_verified = "true"

\* C2: a POST /orders with create:orders and no email_verified claim whose
\* provider fallback failed (token fetch, profile fetch, missing credentials)
\* is answered 403 or 500, and no step of it writes an order.
NoClaimPost(s) ==
  /\ s.in.route = POST /\ Authenticated(s.in.token)
  /\ CreateOrders \in s.in.token.scope
  /\ s.in.token.email_verified = Absent
FallbackFailed(s) == NoClaimPost(s) /\ s.verified \in {"null", "threw"}
C2_FailClosed ==
  /\ [](\A r \in AllSlots : Answered(req[r]) /\ NoClaimPost(req[r]) /\ req[r].verified # "true"
          => req[r].status \in {403, 500})
  /\ [](\A r \in AllSlots : FallbackFailed(req[r])
          => Answered(req[r]) /\ req[r].status \in {403, 500})
  /\ [][\A r \in AllSlots : StepOf(r) /\ FallbackFailed(req'[r]) => NothingStored]_vars
C2_Witness ==
  \E r \in AllSlots :
    /\ FallbackFailed(req[r]) /\ req[r].idp = 2 /\ req[r].status = 403
    /\ mgmtConfigured

\* C3: GET /orders/summary answers 403 to every token whose grant type is not
\* the client-credentials grant, a token without gty included.
HumanSummary(s) ==
  /\ s.in.route = SUMMARY /\ Authenticated(s.in.token)
  /\ ReadSummary \in s.in.token.scope
  /\ s.in.token.gty # ClientCredentials
C3_HumanTokenRejected ==
  \A r \in AllSlots : HumanSummary(req[r]) => Answered(req[r]) /\ req[r].status = 403

\* C4: a POST /orders whose token says email_verified:false is answered 403,
\* with or without the scope, and the identity provider is never called for it.
ClaimFalsePost(s) ==
  /\ s.in.route = POST /\ Authenticated(s.in.token)
  /\ s.in.token.email_verified = "false"
C4_UnverifiedClaimForbidden ==
  \A r \in AllSlots : ClaimFalsePost(req[r])
    => Answered(req[r]) /\ req[r].status = 403 /\ req[r].idp = 0
C4_Witness ==
  \E r \in AllSlots :
    /\ ClaimFalsePost(req[r]) /\ req[r].status = 403
    /\ CreateOrders \in req[r].in.token.scope
    /\ mgmtConfigured

\* The orders of a subject: rows whose user_id is the id of the subject's user row.
OrdersOfSubject(tbl, sub) ==
  {o \in Range(tbl) : \E u \in users : u.auth0_sub = sub /\ u.id = o.user_id}

\* A body the design accepts: items non-empty, each with an id and a positive
\* quantity, total finite and non-negative.
GoodItems(items) ==
  /\ IsArray(items) /\ Len(items.elems) > 0
  /\ \A i \in 1..Len(items.elems) : items.elems[i].id # Absent /\ items.elems[i].qty > 0
GoodTotal(total) == IsFinite(total) /\ total.v >= 0

\* C5: a POST /orders with create:orders, no email_verified claim, a fallback
\* that reported true and a valid body is answered 201 with the inserted order
\* (storage calls succeeding), and its insert adds exactly one order of the
\* subject: one order exists afterwards for a subject that had none.
VerifiedByFallback(s) == NoClaimPost(s) /\ s.verified = "true"
C5_FallbackTrueCreates ==
  /\ [](\A r \in AllSlots :
          /\ Answered(req[r]) /\ VerifiedByFallback(req[r]) /\ ~req[r].fault
          /\ GoodItems(req[r].items) /\ GoodTotal(req[r].total)
          => /\ req[r].status = 201
             /\ Len(req[r].rows) = 1
             /\ \E o \in OrdersOfSubject(orders, req[r].in.token.sub) :
                  ListRow(o) = req[r].rows[1])
  /\ [][\A r \in AllSlots :
          StepOf(r) /\ VerifiedByFallback(req[r]) /\ req[r].status = 0 /\ req'[r].status = 201
          => Cardinality(OrdersOfSubject(orders', req[r].in.token.sub))
               = Cardinality(OrdersOfSubject(orders, req[r].in.token.sub)) + 1]_vars
C5_Witness ==
  \E r \in AllSlots :
    /\ Answered(req[r]) /\ VerifiedByFallback(req[r]) /\ req[r].status = 201
    /\ GoodItems(req[r].items) /\ GoodTotal(req[r].total)
    /\ Cardinality(OrdersOfSubject(orders, req[r].in.token.sub)) = 1

\* C6: no POST /orders with an invalid body passes validation (it is answered
\* 400 instead), so every stored order has valid items and a valid total.
PastValidation(s) ==
  s.in.route = POST /\ (s.pc = "insert" \/ (Answered(s) /\ s.status = 201))
C6_InvalidBodyRejected ==
  /\ \A r \in AllSlots : PastValidation(req[r])
       => GoodItems(req[r].items) /\ GoodTotal(req[r].total)
  /\ \A o \in Range(orders) : GoodItems(o.items) /\ GoodTotal(o.total)

\* C7: a GET /orders answered 200 lists the caller's orders by created_at
\* descending, and the order inserted last comes first, equal timestamps included.
ListAnswered(s) == s.in.route = GET /\ Answered(s) /\ s.status = 200
SortedDesc(rows) ==
  \A i \in 1..Len(rows), j \in 1..Len(rows) : i < j => rows[i].created_at >= rows[j].created_at
C7_NewestFirst ==
  \A r \in AllSlots : ListAnswered(req[r]) =>
    /\ SortedDesc(req[r].rows)
    /\ {req[r].rows[i].id : i \in 1..Len(req[r].rows)}
         = {o.id : o \in OrdersOfSubject(orders, req[r].in.token.sub)}
    /\ \A o \in OrdersOfSubject(orders, req[r].in.token.sub) : o.id <= req[r].rows[1].id

\* C8: GET /orders/summary?sub=X by the hook (storage calls succeeding) is
\* answered 200; with no user row for X the body is []; with n orders of X it
\* has min(n, 5) entries {id, total, created_at} of distinct orders of X, by
\* created_at descending, and no order left out is more recent than one listed.
SummaryAsked(s) ==
  /\ s.in.route = SUMMARY /\ Answered(s) /\ ~s.fault
  /\ Authenticated(s.in.token) /\ ReadSummary \in s.in.token.scope
  /\ s.in.token.gty = ClientCredentials /\ s.in.qsub # Absent
MostRecent(rows, S) ==
  /\ Len(rows) = Min(Cardinality(S), 5)
  /\ \A i \in 1..Len(rows) :
       \E o \in S : rows[i] = [id |-> o.id, total |-> o.total, created_at |-> o.created_at]
  /\ \A i \in 1..Len(rows), j \in 1..Len(rows) : i # j => rows[i].id # rows[j].id
  /\ SortedDesc(rows)
  /\ \A o \in S : (\A i \in 1..Len(rows) : rows[i].id # o.id)
       => \A i \in 1..Len(rows) : o.created_at <= rows[i].created_at
C8_SummaryMostRecent ==
  \A r \in AllSlots : SummaryAsked(req[r]) =>
    /\ req[r].status = 200
    /\ IF HasUser(req[r].in.qsub)
       THEN MostRecent(req[r].rows, OrdersOfSubject(orders, req[r].in.qsub))
       ELSE req[r].rows = <<>>
C8_Witness ==
  \E r \in AllSlots :
    /\ SummaryAsked(req[r]) /\ req[r].status = 200
    /\ Cardinality(OrdersOfSubject(orders, req[r].in.qsub)) > 5
    /\ Len(req[r].rows) = 5
    /\ \E o \in Range(orders) : o \notin OrdersOfSubject(orders, req[r].in.qsub)

\* C9: there is never more than one user row per subject, and every
\* ensureUser(sub, email) that returns leaves the row of sub with that email,
\* returns its id, which is the id the row already had if it existed, adds no
\* row in that case, and leaves the other rows alone.
RowsOf(tbl, sub) == {u \in tbl : u.auth0_sub = sub}
EnsureUserReturned(r) == req[r].pc = "ensureUser" /\ req'[r].pc \in {"insert", "select"}
C9_EnsureUserIdempotent ==
  /\ [](\A sub \in Subjects : Cardinality(RowsOf(users, sub)) <= 1)
  /\ [][\A r \in AllSlots : EnsureUserReturned(r) =>
          LET sub == req[r].in.token.sub
              email == req[r].in.token.email
          IN /\ RowsOf(users', sub) = {[id |-> req'[r].userId, auth0_sub |-> sub, email |-> email]}
             /\ RowsOf(users, sub) # {} =>
                  /\ \A u \in RowsOf(users, sub) : u.id = req'[r].userId
                  /\ Cardinality(users') = Cardinality(users)
             /\ users' \ RowsOf(users', sub) = users \ RowsOf(users, sub)]_vars
C9_Witness ==
  \E r, q \in AllSlots :
    /\ req[r].in.token.sub = Alice /\ req[q].in.token.sub = Alice
    /\ req[r].in.token.email = MailA /\ req[q].in.token.email = MailB
    /\ req[r].userId = 2 /\ req[q].userId = 2
    /\ users = {[id |-> 1, auth0_sub |-> Bob, email |-> MailA],
                [id |-> 2, auth0_sub |-> Alice, email |-> MailB]}

\* C10: whenever getMgmtToken() hands a token to its caller (from the cache or
\* freshly fetched), that token's exp is more than the margin ahead of the clock.
TokenReturned(r) ==
  /\ variant = "pgcache"
  /\ \/ req'[r].mgmt # req[r].mgmt /\ req'[r].mgmt # NoMgmtToken
     \/ req'[r].bgMgmt # req[r].bgMgmt /\ req'[r].bgMgmt # NoMgmtToken
ServedToken(r) ==
  IF req'[r].mgmt # req[r].mgmt /\ req'[r].mgmt # NoMgmtToken THEN req'[r].mgmt
  ELSE req'[r].bgMgmt
\* exp: now + data.expires_in, now read before the token request is sent
TokenExp(tok) == tok.now + tok.e
C10_ServedTokenFresh ==
  [][\A r \in AllSlots :
       TokenReturned(r) => TokenExp(ServedToken(r)) - SafetyMargin > clock']_vars

\* The tokens served from the cache, without a fetch, are that far from expiry.
ServedFromCache(r) == req[r].pc # "evToken" /\ req[r].bg # "bgToken"
CachedTokenFresh ==
  [][\A r \in AllSlots :
       TokenReturned(r) /\ ServedFromCache(r)
         => TokenExp(ServedToken(r)) - SafetyMargin > clock']_vars
CachedTokenServed ==
  \E r \in AllSlots :
    /\ variant = "pgcache" /\ req[r].pc = "evProfile" /\ req[r].idp = 1
    /\ req[r].mgmt = mgmtCache.token

\* C11: a POST /orders whose token has no email_verified claim and that waits
\* for the identity provider (token or profile endpoint) is eventually answered.
AwaitsProvider(s) == NoClaimPost(s) /\ s.pc \in {"evToken", "evProfile"}
C11_UnresponsiveProviderAnswered ==
  \A r \in AllSlots : AwaitsProvider(req[r]) ~> Answered(req[r])

\* C12: every response with status 400, 401, 403 or 500 has a body {error: message}.
FailureStatus == {400, 401, 403, 500}
C12_FailureBodyIsError ==
  \A r \in AllSlots :
    Answered(req[r]) /\ req[r].status \in FailureStatus => req[r].body = "error"

\* C13: the process listens only with AUTH0_DOMAIN, AUTH0_AUDIENCE and
\* DATABASE_URL all set and after initSchema succeeded; a process that exited
\* (missing setting, failed schema initialisation) stays exited; and a request
\* is served only by a listening process.
Exited == {"exitConfig", "exitSchema"}
AllSettings == env.AUTH0_DOMAIN /\ env.AUTH0_AUDIENCE /\ env.DATABASE_URL
AuthorizedRead(s) ==
  s.in.route = GET /\ Authenticated(s.in.token) /\ ReadOrders \in s.in.token.scope
HasRouteScope(s) == RouteScope(s.in.route) \in s.in.token.scope
InEmailGate(s) == s.pc \in {"evToken", "evProfile"}
InHandler(s) == s.pc \in {"ensureUser", "insert", "select", "sumUser", "sumOrders"}
Untouched(s) == s.idp = 0 /\ s.verified = "unset" /\ s.userId = 0
C15_GatesInOrder ==
  /\ [](\A r \in AllSlots : req[r].pc # "idle" /\ ~req[r].in.token.valid =>
          Answered(req[r]) /\ req[r].status = 401 /\ Untouched(req[r]))
  /\ [](\A r \in AllSlots :
          req[r].pc # "idle" /\ req[r].in.token.valid /\ ~HasRouteScope(req[r]) =>
            Answered(req[r]) /\ req[r].status = 403 /\ Untouched(req[r]))
  /\ [](\A r \in AllSlots : InEmailGate(req[r]) =>
          /\ req[r].in.route = POST /\ req[r].in.token.valid /\ HasRouteScope(req[r])
          /\ req[r].userId = 0)
  /\ [](\A r \in AllSlots : InHandler(req[r]) =>
          /\ req[r].in.token.valid /\ HasRouteScope(req[r])
          /\ req[r].in.route = POST =>
               req[r].in.token.email_verified = "true" \/ req[r].verified = "true")
  /\ [][\A r \in AllSlots :
          StepOf(r) /\ (req[r].pc = "idle" \/ InEmailGate(req[r])) /\ Answered(req'[r])
            => /\ users' = users /\ orders' = orders /\ appMeta' = appMeta
               /\ req'[r].userId = 0]_vars
C15_Witness ==
  \E r \in AllSlots :
    /\ Answered(req[r]) /\ req[r].in.route = POST
    /\ req[r].in.token.valid /\ HasRouteScope(req[r])
    /\ req[r].in.token.email_verified = Absent
    /\ req[r].status = 403 /\ req[r].verified = "false" /\ req[r].idp = 2
    /\ users = {} /\ orders = <<>>

\* C16: with requests of one subject in flight together, in every reachable
\* state no two user rows share auth0_sub or id, and every request that
\* obtained an id holds the id of its subject's one row.
HoldsUserId(s) == s.userId # 0 /\ s.in.route \in {POST, GET}
C16_ConcurrentUpsertsAgree ==
  /\ \A u, w \in users : u.auth0_sub = w.auth0_sub \/ u.id = w.id => u = w
  /\ \A r \in AllSlots : HoldsUserId(req[r]) =>
       \E u \in users : /\ u.auth0_sub = req[r].in.token.sub
                        /\ u.id = req[r].userId
  /\ \A r, q \in AllSlots :
       /\ HoldsUserId(req[r]) /\ HoldsUserId(req[q])
       /\ req[r].in.token.sub = req[q].in.token.sub
       => req[r].userId = req[q].userId
C16_Witness ==
  /\ \A r \in AllSlots :
       /\ req[r].pc \in {"insert", "select"}
       /\ req[r].in.token.sub = Alice /\ req[r].userId = 1
  /\ req[1].in.token.email # req[2].in.token.email
  /\ Cardinality(users) = 1 /\ orders = <<>>

\* C17: every write to mgmtCache stores the token of one fetch together with
\* the expiry of that same fetch, and leaves an exp that is not earlier than
\* the one it replaces.
FromOneFetch(cache) == cache.token # NoMgmtToken /\ cache.exp = TokenExp(cache.token)
CacheWritten == mgmtCache' # mgmtCache
C17_RefreshMonotone ==
  [][CacheWritten => FromOneFetch(mgmtCache') /\ mgmtCache'.exp >= mgmtCache.exp]_vars

\* C17 (amended): the cache is empty or holds the token of one fetch with the
\* expiry of that fetch (the time its caller started plus its expires_in); a
\* write is made by the caller whose fetch was answered and stores that pair,
\* whatever the cache held.
FetchAnswered(r) ==
  \/ req[r].pc = "evToken" /\ req'[r].pc = "evProfile"
  \/ req[r].bg = "bgToken" /\ req'[r].bg = "bgProfile"
StartedAt(s) == IF s.bg = "bgToken" THEN s.bgNow ELSE s.now
C17_CacheHoldsOneFetch ==
  /\ [](mgmtCache = EmptyCache \/ FromOneFetch(mgmtCache))
  /\ [][CacheWritten =>
          \E r \in AllSlots :
            /\ FetchAnswered(r)
            /\ mgmtCache'.token = ServedToken(r)
            /\ mgmtCache'.token.by = r
            /\ mgmtCache'.exp = StartedAt(req[r]) + mgmtCache'.token.e]_vars
C17_Witness ==
  \E r, q \in AllSlots :
    /\ r # q
    /\ req[r].mgmt.by = r /\ req[r].pc = "evProfile"
    /\ mgmtCache.token.by = q
    /\ mgmtCache.exp < TokenExp(req[r].mgmt)

\* A step in which request r calls getMgmtToken(): the email gate's fallback
\* as the request arrives, or the profile enrichment after the insert.
GateCalls(r) == variant = "pgcache" /\ req[r].pc = "idle" /\ NoClaimPost(req'[r])
EnrichCalls(r) == variant = "pgcache" /\ req[r].pc = "insert" /\ req'[r].status = 201
GetMgmtTokenCalled(r) == GateCalls(r) \/ EnrichCalls(r)
Fetches(r) ==
  \/ GateCalls(r) /\ req'[r].pc = "evToken"
  \/ EnrichCalls(r) /\ req'[r].bg = "bgToken"
ReturnsCached(r) ==
  \/ GateCalls(r) /\ req'[r].pc = "evProfile" /\ req'[r].mgmt = mgmtCache.token
  \/ EnrichCalls(r) /\ req'[r].bg = "bgProfile" /\ req'[r].bgMgmt = mgmtCache.token
Throws(r) ==
  \/ GateCalls(r) /\ Answered(req'[r]) /\ req'[r].verified = "null"
  \/ EnrichCalls(r) /\ req'[r].bg = "none"
Stale(cache, now) == cache.token = NoMgmtToken \/ cache.exp - 30 <= now

\* C18: when the token request of a getMgmtToken() call fails, the call fails
\* (the email gate answers 403, the enrichment is given up), the cache is
\* exactly what it was and it is still stale, and a call that finds it stale
\* sends a new token request.
FetchFailed(r) ==
  /\ variant = "pgcache"
  /\ \/ req[r].pc = "evToken" /\ Answered(req'[r])
     \/ req[r].bg = "bgToken" /\ req'[r].bg = "none"
CallFailed(r) ==
  \/ req[r].pc = "evToken" /\ req'[r].status = 403 /\ req'[r].verified = "null"
       /\ req'[r].mgmt = NoMgmtToken
  \/ req[r].bg = "bgToken" /\ req'[r].bgMgmt = NoMgmtToken /\ req'[r].status = req[r].status
C18_FailedFetchNotCached ==
  /\ [][\A r \in AllSlots : FetchFailed(r) =>
          /\ CallFailed(r)
          /\ mgmtCache' = mgmtCache
          /\ Stale(mgmtCache', clock')]_vars
  /\ [][\A r \in AllSlots :
          GetMgmtTokenCalled(r) /\ mgmtConfigured /\ Stale(mgmtCache, clock) => Fetches(r)]_vars
C18_Witness ==
  \E r \in AllSlots :
    /\ variant = "pgcache" /\ mgmtConfigured
    /\ NoClaimPost(req[r]) /\ Answered(req[r])
    /\ req[r].verified = "null" /\ req[r].idp = 1
    /\ FromOneFetch(mgmtCache)

\* C19: a getMgmtToken() call sends a token request if and only if no token
\* is cached or the cached one is within 30 seconds of its exp; otherwise it
\* returns the cached token and leaves the cache as it is.
C19_FetchIffStale ==
  [][\A r \in AllSlots : GetMgmtTokenCalled(r) =>
       /\ Fetches(r) <=> Stale(mgmtCache, clock)
       /\ ~Stale(mgmtCache, clock) => ReturnsCached(r)
       /\ mgmtCache' = mgmtCache]_vars

\* C19 (amended): the same with the client credentials configured; without
\* them the call throws at once, with no request and the cache as it is.
C19_FetchIffStaleWhenConfigured ==
  [][\A r \in AllSlots : GetMgmtTokenCalled(r) =>
       /\ mgmtCache' = mgmtCache
       /\ IF mgmtConfigured
          THEN /\ Fetches(r) <=> Stale(mgmtCache, clock)
               /\ ~Stale(mgmtCache, clock) => ReturnsCached(r)
          ELSE Throws(r) /\ ~Fetches(r) /\ ~ReturnsCached(r)]_vars
C19_Witness ==
  \E r \in AllSlots :
    /\ variant = "pgcache" /\ NoClaimPost(req[r])
    /\ req[r].pc = "evProfile" /\ req[r].idp = 1
    /\ req[r].mgmt = mgmtCache.token
    /\ mgmtCache.exp - 30 = clock + 1

\* C20: for a POST /orders whose token carries email_verified (true or false)
\* the email gate decides as the request arrives, from the claim alone: true
\* passes to the handler, false is answered 403; the request never waits for
\* the token or the profile endpoint, holds no service token for the gate, and
\* the gate leaves mgmtCache as it is.
ClaimPresentPost(s) ==
  /\ s.in.route = POST /\ Authenticated(s.in.token)
  /\ CreateOrders \in s.in.token.scope
  /\ s.in.token.email_verified \in {"true", "false"}
Inserting(r) == req[r].in.route = POST /\ req[r].pc = "insert"
C21_AtomicInsert ==
  [][\A r \in AllSlots : StepOf(r) =>
       /\ orders' # orders =>
            /\ Inserting(r)
            /\ Len(orders') = Len(orders) + 1
            /\ \A i \in 1..Len(orders) : orders'[i] = orders[i]
            /\ req'[r].status = 201
            /\ req'[r].rows = <<ListRow(orders'[Len(orders')])>>
            /\ orders'[Len(orders')].user_id = req[r].userId
       /\ (req[r].status # 201 /\ req'[r].status = 201) => orders' # orders
       /\ (Inserting(r) /\ orders' = orders) =>
            Answered(req'[r]) /\ req'[r].status >= 400]_vars
C21_Witness ==
  \E r \in AllSlots :
    /\ Answered(req[r]) /\ req[r].in.route = POST
    /\ req[r].fault /\ req[r].status = 500
    /\ IsArray(req[r].items) /\ req[r].userId # 0
    /\ Len(orders) = 1

\* C22: the order ledger is append-only.  While the answer of a GET /orders
\* of a user is held, whatever POST /orders, GET /orders and
\* GET /orders/summary requests run meanwhile, every GET /orders of the same
\* user answered afterwards lists every row of the earlier answer again, with
\* the same id, items, total, address and created_at.
Listed(s, sub) ==
  Answered(s) /\ s.in.route = GET /\ s.status = 200 /\ s.in.token.sub = sub
C22_LedgerAppendOnly ==
  [][\A earlier, later \in AllSlots : \A sub \in Subjects :
       /\ Listed(req[earlier], sub)
       /\ ~Answered(req[later]) /\ Listed(req'[later], sub)
       => Range(req[earlier].rows) \subseteq Range(req'[later].rows)]_vars
C22_Witness ==
  \E earlier, later \in AllSlots :
    /\ Listed(req[earlier], Alice) /\ Len(req[earlier].rows) = 1
    /\ Listed(req[later], Alice) /\ Len(req[later].rows) = 2
    /\ Range(req[earlier].rows) \subseteq Range(req[later].rows)
    /\ Len(orders) = 2

\* C23: GET /orders/summary is read-only.  No step of a summary request, from
\* its arrival to its answer (200 with entries, 200 with [], 400, 403, 500 or
\* the validator's 401), changes the users or the orders table; a subject
\* without a user row gets [] and still has no row.
SummaryStep(r) ==
  StepOf(r) /\ (req[r].in.route = SUMMARY \/ req'[r].in.route = SUMMARY)
C23_SummaryReadOnly ==
  [][\A r \in AllSlots : SummaryStep(r) => users' = users /\ orders' = orders]_vars
C23_Witness ==
  \E r \in AllSlots :
    /\ Answered(req[r]) /\ req[r].in.route = SUMMARY
    /\ req[r].status = 200 /\ req[r].rows = <<>>
    /\ req[r].in.qsub = Bob /\ ~HasUser(Bob)
    /\ HasUser(Alice) /\ orders # <<>>

\* C24: the email claim decides nothing.  At every step of a request, replacing
\* its email claim by any other value changes neither the gate decisions at its
\* arrival nor the step: under the same answers of the database
\* and the identity provider the request reaches the same position with the
\* same status, body and rows, and the users table afterwards has the same
\* ids and subjects, its email column apart.
Emails == {Absent, MailA, MailB}
WithEmailIn(in, em) == [in EXCEPT !.token.email = em]
WithEmail(s, em) == [s EXCEPT !.in = WithEmailIn(s.in, em)]
Blind(U) == {[id |-> u.id, auth0_sub |-> u.auth0_sub] : u \in U}
SameGateDecisions(r, em) ==
  Pipeline(WithEmailIn(req'[r].in, em)) = WithEmail(req'[r], em)
SameEnsureUser(s, em) ==
  \A o \in StorageOutcomes, b \in BodiesRead(s, "ensureUser") :
    LET sub == s.in.token.sub
        ok == o = "ok" /\ sub # Absent
        Id(e) == IF ok THEN UpsertReturning(sub, OrNull(e)) ELSE 0
    IN /\ AfterEnsureUser(WithEmail(s, em), ok, Id(em), b)
            = WithEmail(AfterEnsureUser(s, ok, Id(s.in.token.email), b), em)
       /\ ok => Blind(UpsertUser(sub, OrNull(em)))
                  = Blind(UpsertUser(sub, OrNull(s.in.token.email)))
SameInsert(s, em) ==
  LET tbl == InsertOrder(s.userId, s.items, s.total, OrNull(s.address)) IN
  \A ok \in BOOLEAN :
    AfterInsert(WithEmail(s, em), ok, tbl[Len(tbl)])
      = WithEmail(AfterInsert(s, ok, tbl[Len(tbl)]), em)
SameProviderAnswers(r, s, em) ==
  /\ (s.pc \in {"evToken", "hToken"} \/ s.bg = "bgToken") =>
       \A o \in TokenOutcomes :
         LET tok == [by |-> r, now |-> s.now, e |-> o.expires_in] IN
         AfterToken(WithEmail(s, em), o, tok) = WithEmail(AfterToken(s, o, tok), em)
  /\ (s.pc \in {"evProfile", "hProfile"} \/ s.bg = "bgProfile") =>
       \A o \in ProfileOutcomes(s.in.token.sub), b \in BodiesRead(s, "hProfile") :
         AfterProfile(WithEmail(s, em), o, b) = WithEmail(AfterProfile(s, o, b), em)
  /\ (s.pc = "hPatch" \/ s.bg = "bgPatch") =>
       \A ok \in BOOLEAN :
         AfterPatch(WithEmail(s, em), ok) = WithEmail(AfterPatch(s, ok), em)
C24_EmailAdvisory ==
  [][\A r \in AllSlots :
       StepOf(r) => \A em \in Emails \ {req'[r].in.token.email} :
         LET s == req[r] IN
         /\ s.pc = "idle" => SameGateDecisions(r, em)
         /\ s.pc = "ensureUser" => SameEnsureUser(s, em)
         /\ s.pc = "insert" => SameInsert(s, em)
         /\ s.pc # "idle" => SameProviderAnswers(r, s, em)]_vars
C24_Witness ==
  \E r \in AllSlots :
    /\ Answered(req[r]) /\ req[r].in.route = POST /\ req[r].status = 201
    /\ req[r].in.token.email = Absent
    /\ req[r].verified = "true"
    /\ \E u \in users : u.auth0_sub = Alice /\ u.email = Null

\* C25: every order references an existing user.  In every reachable state
\* each row of orders has the id of a row of users; a row is inserted only
\* with the userId that ensureUser returned to the same request, which is the
\* id of the row of the token's subject; and deleting a user row removes that
\* user's orders and no others.
Referenced(tbl, U) == \A i \in 1..Len(tbl) : \E u \in U : u.id = tbl[i].user_id
C25_OrdersReferenceUsers ==
  /\ []Referenced(orders, users)
  /\ [][\A r \in AllSlots : StepOf(r) /\ Len(orders') > Len(orders) =>
          LET row == orders'[Len(orders')] IN
          /\ req[r].pc = "insert" /\ row.user_id = req[r].userId
          /\ HasUser(req[r].in.token.sub)
          /\ UserOf(req[r].in.token.sub).id = req[r].userId]_vars
  /\ [][\A u \in users \ users' :
          /\ \A i \in 1..Len(orders') : orders'[i].user_id # u.id
          /\ \A i \in 1..Len(orders) :
               orders[i].user_id \in {v.id : v \in users'} => orders[i] \in Range(orders')]_vars
C25_Witness ==
  /\ orders # <<>> /\ Referenced(orders, users)
  /\ serial.orders > Len(orders)
  /\ Cardinality(users) < serial.users
  /\ \E r \in AllSlots : Answered(req[r]) /\ req[r].status = 201

\* C26: in the app_metadata revision every order acknowledged by a successful
\* POST /orders is in the subject's app_metadata.orders, also when two
\* POST /orders of the subject interleave their profile read and patch.
Acknowledged(s) == Answered(s) /\ s.in.route = POST /\ s.status = 200
InProfile(s) ==
  \E o \in Range(appMeta[s.in.token.sub].orders) :
    o.items = s.items /\ o.total = s.total /\ o.address = s.address
C26_AcknowledgedOrderKept ==
  \A r \in AllSlots : Acknowledged(req[r]) => InProfile(req[r])

====
